---- MODULE Spec2Model ----
(***************************************************************************)
(* WeatherWise backend (src/backend/app.py): the location resolver         *)
(* (geocode, reverse_geocode), the weather fetcher (fetch_weather) and the *)
(* request store (create/get/update/delete handlers) as a state machine.   *)
(*                                                                         *)
(* Conventions of the translation                                          *)
(*  - a Python str is a sequence of one-character strings;                 *)
(*  - an Optional value is a sequence of length 0 (None) or 1 (the value); *)
(*  - a date is its day number (an integer), a timedelta a difference;     *)
(*  - a float is an integer; the model enumerates only float literals that *)
(*    are unsigned decimal integers;                                       *)
(*  - an outbound HTTP call takes its response from an environment record: *)
(*    [exc, status_code, body], exc = TRUE when requests.get raises        *)
(*    (timeout, transport failure), body.json_ok = FALSE when r.json()     *)
(*    raises;                                                              *)
(*  - a raised HTTPException(status_code, detail) is a result with         *)
(*    typed = TRUE; any other exception escaping a handler is the          *)
(*    framework's plain 500, a result with typed = FALSE.                  *)
(***************************************************************************)
EXTENDS Integers, Sequences, FiniteSets, TLC

VARIABLES store, issued, today, last, geo, fw

vars == <<store, issued, today, last, geo, fw>>

\* ---------------------------------------------------------------- values

None == <<>>

Some(x) == <<x>>

Digits == <<"0", "1", "2", "3", "4", "5", "6", "7", "8", "9">>

DigitSet == {Digits[i] : i \in 1..10}

DigitValue(c) == (CHOOSE i \in 1..10 : Digits[i] = c) - 1

WhiteSpace == {" "}

\* str.isdigit(): non-empty and every character a digit
isdigit(s) == Len(s) > 0 /\ \A i \in 1..Len(s) : s[i] \in DigitSet

\* str.strip(): leading and trailing whitespace removed
strip(s) ==
    LET keep == {i \in 1..Len(s) : s[i] \notin WhiteSpace}
    IN  IF keep = {} THEN <<>>
        ELSE LET lo == CHOOSE i \in keep : \A j \in keep : i <= j
                 hi == CHOOSE i \in keep : \A j \in keep : j <= i
             IN  SubSeq(s, lo, hi)

RECURSIVE DigitsValue(_)
DigitsValue(s) ==
    IF Len(s) = 0 THEN 0
    ELSE 10 * DigitsValue(SubSeq(s, 1, Len(s) - 1)) + DigitValue(s[Len(s)])

\* float(s): None when it raises ValueError
to_float(s) ==
    LET t == strip(s)
    IN  IF isdigit(t) THEN Some(DigitsValue(t)) ELSE None

RECURSIVE IntToStr(_)
IntToStr(n) ==
    IF n < 10 THEN <<Digits[n + 1]>>
    ELSE IntToStr(n \div 10) \o <<Digits[(n % 10) + 1]>>

\* f"{x:.4f}"
Fmt4f(x) == IntToStr(x) \o <<".", "0", "0", "0", "0">>

\* sep.join(parts)
RECURSIVE Join(_, _)
Join(sep, parts) ==
    IF Len(parts) = 0 THEN <<>>
    ELSE IF Len(parts) = 1 THEN parts[1]
    ELSE parts[1] \o sep \o Join(sep, Tail(parts))

\* [p for p in parts if p]
RECURSIVE Truthy(_)
Truthy(parts) ==
    IF Len(parts) = 0 THEN <<>>
    ELSE IF parts[1] = <<>> THEN Truthy(Tail(parts))
    ELSE <<parts[1]>> \o Truthy(Tail(parts))

CommaSpace == <<",", " ">>

\* one outbound call as the handler's trace records it
Call(svc, args, resp) ==
    [svc |-> svc, args |-> args,
     outcome |-> IF resp.exc THEN "exc"
                 ELSE IF resp.status_code = 200 THEN "ok" ELSE "status"]

\* ------------------------------------------------------- location resolver

parse_latlon(s) ==
    LET commas == {i \in 1..Len(s) : s[i] = ","}
    IN  IF commas = {} THEN None
        ELSE LET k == CHOOSE i \in commas : \A j \in commas : i <= j
                 a == to_float(SubSeq(s, 1, k - 1))
                 b == to_float(SubSeq(s, k + 1, Len(s)))
             IN  IF a = None \/ b = None THEN None
                 ELSE Some([lat |-> a[1], lon |-> b[1]])

is_us_zip(s) == isdigit(s) /\ Len(s) = 5

\* reverse_geocode: the name, or None on any error or empty result
reverse_geocode(lat, lon, resp) ==
    IF resp.exc THEN None
    ELSE IF resp.status_code # 200 THEN None
    ELSE IF ~resp.body.json_ok THEN None
    ELSE IF Len(resp.body.results) = 0 THEN None
    ELSE LET t == resp.body.results[1]
         IN  Some(Join(CommaSpace, Truthy(<<t.name, t.admin1, t.country>>)))

\* a postal lookup that answers with coordinates 0 when they do not parse
zip_lookup_lenient(location, resp) ==
    IF resp.exc THEN None
    ELSE IF resp.status_code # 200 THEN None
    ELSE IF ~resp.body.json_ok THEN None
    ELSE IF Len(resp.body.places) = 0 THEN None
    ELSE LET place == resp.body.places[1]
             lat == to_float(place.latitude)
             lon == to_float(place.longitude)
         IN  Some([name |-> place.place_name \o CommaSpace
                               \o place.state_abbreviation \o <<" ">>
                               \o location,
                    lat |-> IF lat = None THEN 0 ELSE lat[1],
                    lon |-> IF lon = None THEN 0 ELSE lon[1]])

\* the postal-code branch of geocode: Some(result) when it returns, None
\* when it falls through
zip_lookup(location, resp) ==
    IF resp.exc THEN None
    ELSE IF resp.status_code # 200 THEN None
    ELSE IF ~resp.body.json_ok THEN None
    ELSE IF Len(resp.body.places) = 0 THEN None
    ELSE LET place == resp.body.places[1]
             lat == to_float(place.latitude)
             lon == to_float(place.longitude)
         IN  IF lat = None \/ lon = None THEN None
             ELSE Some([name |-> place.place_name \o CommaSpace
                                   \o place.state_abbreviation \o <<" ">>
                                   \o location,
                        lat |-> lat[1], lon |-> lon[1]])

GeoOk(name, lat, lon, calls) ==
    [status |-> 200, typed |-> TRUE, detail |-> "", name |-> name,
     lat |-> lat, lon |-> lon, calls |-> calls]

GeoErr(status, typed, detail, calls) ==
    [status |-> status, typed |-> typed, detail |-> detail, name |-> <<>>,
     lat |-> 0, lon |-> 0, calls |-> calls]

\* the free-text branch of geocode
search_geocode(location, resp, calls0) ==
    LET calls == calls0 \o <<Call("search", location, resp)>>
    IN  IF resp.exc THEN GeoErr(500, FALSE, "Internal Server Error", calls)
        ELSE IF resp.status_code # 200
             THEN GeoErr(502, TRUE, "Geocoding failed", calls)
        ELSE IF ~resp.body.json_ok
             THEN GeoErr(500, FALSE, "Internal Server Error", calls)
        ELSE IF Len(resp.body.results) = 0
             THEN GeoErr(404, TRUE, "Location not found", calls)
        ELSE LET top == resp.body.results[1]
                 name_parts ==
                     <<top.name>>
                     \o (IF top.admin1 # <<>> THEN <<top.admin1>> ELSE <<>>)
                     \o (IF top.country # <<>> THEN <<top.country>> ELSE <<>>)
             IN  GeoOk(Join(CommaSpace, Truthy(name_parts)),
                       top.latitude, top.longitude, calls)

\* a reverse lookup whose exception is not caught
coordinate_geocode_unguarded(lat, lon, resp) ==
    LET calls == <<Call("reverse", <<lat, lon>>, resp)>>
        name == reverse_geocode(lat, lon, resp)
    IN  IF resp.exc THEN GeoErr(500, FALSE, "Internal Server Error", calls)
        ELSE GeoOk(IF name # None /\ name[1] # <<>> THEN name[1]
                   ELSE Fmt4f(lat) \o <<",">> \o Fmt4f(lon),
                   lat, lon, calls)

\* the coordinate branch of geocode
coordinate_geocode(lat, lon, resp) ==
    LET name == reverse_geocode(lat, lon, resp)
    IN  GeoOk(IF name # None /\ name[1] # <<>> THEN name[1]
              ELSE Fmt4f(lat) \o <<",">> \o Fmt4f(lon),
              lat, lon,
              <<Call("reverse", <<lat, lon>>, resp)>>)

geocode(location, env) ==
    LET latlon == parse_latlon(location)
    IN  IF latlon # None
        THEN coordinate_geocode(latlon[1].lat, latlon[1].lon, env.rev)
        ELSE IF is_us_zip(location)
        THEN LET z == zip_lookup(location, env.zip)
                 calls == <<Call("zip", location, env.zip)>>
             IN  IF z # None
                 THEN GeoOk(z[1].name, z[1].lat, z[1].lon, calls)
                 ELSE search_geocode(location, env.search, calls)
        ELSE search_geocode(location, env.search, <<>>)

\* --------------------------------------------------------- weather fetcher

Min(a, b) == IF a <= b THEN a ELSE b

\* F applied to the value of v, v evaluated once (a local variable assigned
\* the result of a call)
Let(v, F(_)) == CHOOSE y \in {F(x) : x \in {v}} : TRUE

\* The archive/forecast backend answering one segment request (the far side
\* of requests.get in the segment loop).  behaviour.shape says what a 200
\* body carries for the requested range [start, end]:
\*   "full"    one entry per requested day in each of the four arrays
\*   "short"   the last requested day is missing from every array
\*   "nodaily" no "daily" object at all
SegmentResponse(behaviour, start, end) ==
    LET last_day == IF behaviour.shape = "full" THEN end ELSE end - 1
        n == IF behaviour.shape = "nodaily" \/ last_day < start THEN 0
             ELSE last_day - start + 1
    IN  [exc |-> behaviour.exc, status_code |-> behaviour.status_code,
         body |-> [json_ok |-> behaviour.json_ok,
                   daily |-> [time |-> [i \in 1..n |-> start + i - 1],
                              temperature_2m_min |-> [i \in 1..n |-> Some(10)],
                              temperature_2m_max |-> [i \in 1..n |-> Some(20)],
                              weathercode |-> [i \in 1..n |-> behaviour.code]]]]

\* a partitioning whose archive part runs through today
Parts_overlap(dfrom, dto, now) ==
    IF dto < now THEN <<[start |-> dfrom, end |-> dto, kind |-> "archive"]>>
    ELSE IF dfrom >= now
         THEN <<[start |-> dfrom, end |-> dto, kind |-> "forecast"]>>
    ELSE <<[start |-> dfrom, end |-> now, kind |-> "archive"],
           [start |-> now, end |-> dto, kind |-> "forecast"]>>

\* the date-range partitioning at the head of fetch_weather
Parts(dfrom, dto, now) ==
    IF dto < now THEN <<[start |-> dfrom, end |-> dto, kind |-> "archive"]>>
    ELSE IF dfrom >= now
         THEN <<[start |-> dfrom, end |-> dto, kind |-> "forecast"]>>
    ELSE <<[start |-> dfrom, end |-> now - 1, kind |-> "archive"],
           [start |-> now, end |-> dto, kind |-> "forecast"]>>

LoopStart ==
    [status |-> 200, typed |-> TRUE, detail |-> "", calls |-> <<>>,
     daily_dates |-> <<>>, tmin |-> <<>>, tmax |-> <<>>, wcode |-> <<>>]

\* the segment loop of fetch_weather: one request per part, in order, the
\* first failure raising out of the loop
RECURSIVE SegmentLoop(_, _, _, _)
SegmentLoop(parts, env, i, acc) ==
    IF i > Len(parts) THEN acc
    ELSE LET p == parts[i]
             r == SegmentResponse(env.seg[i], p.start, p.end)
             calls == acc.calls \o <<Call(p.kind, <<p.start, p.end>>, r)>>
         IN  IF r.exc \/ (r.status_code = 200 /\ ~r.body.json_ok)
             THEN [acc EXCEPT !.status = 500, !.typed = FALSE,
                              !.detail = "Internal Server Error",
                              !.calls = calls]
             ELSE IF r.status_code # 200
             THEN [acc EXCEPT !.status = 502, !.typed = TRUE,
                              !.detail = IF p.kind = "archive"
                                         THEN "Weather API error (archive)"
                                         ELSE "Weather API error (forecast)",
                              !.calls = calls]
             ELSE SegmentLoop(parts, env, i + 1,
                      [acc EXCEPT
                          !.calls = calls,
                          !.daily_dates = @ \o r.body.daily.time,
                          !.tmin = @ \o r.body.daily.temperature_2m_min,
                          !.tmax = @ \o r.body.daily.temperature_2m_max,
                          !.wcode = @ \o r.body.daily.weathercode])

\* a zip that stops one entry early
Daily_short(daily_dates, tmin, tmax, wcode) ==
    LET n == Min(Min(Len(daily_dates), Len(tmin)), Min(Len(tmax), Len(wcode)))
    IN  [i \in 1..(IF n = 0 THEN 0 ELSE n - 1) |->
            [date |-> daily_dates[i], tmin_c |-> tmin[i], tmax_c |-> tmax[i],
             weathercode |-> IF wcode[i] # None THEN wcode[i] ELSE None]]

\* zip(daily_dates, tmin, tmax, wcode) as the list of daily entries
Daily(daily_dates, tmin, tmax, wcode) ==
    LET n == Min(Min(Len(daily_dates), Len(tmin)), Min(Len(tmax), Len(wcode)))
    IN  [i \in 1..n |->
            [date |-> daily_dates[i], tmin_c |-> tmin[i], tmax_c |-> tmax[i],
             weathercode |-> IF wcode[i] # None THEN wcode[i] ELSE None]]

\* the trailing live call of fetch_weather: Some(value of the key) when the
\* key is set on the result, None when it is left out
LiveCurrent(resp) ==
    IF resp.exc THEN None
    ELSE IF resp.status_code # 200 THEN None
    ELSE IF ~resp.body.json_ok THEN None
    ELSE Some(resp.body.current_weather)

\* fetch_weather(lat, lon, dfrom, dto) with date.today() = now
fetch_weather(lat, lon, dfrom, dto, now, env) ==
    Let(SegmentLoop(Parts(dfrom, dto, now), env, 1, LoopStart), LAMBDA loop :
        IF loop.status # 200
        THEN [status |-> loop.status, typed |-> loop.typed,
              detail |-> loop.detail, out |-> None, calls |-> loop.calls]
        ELSE LET base == [latitude |-> lat, longitude |-> lon,
                          daily |-> Daily(loop.daily_dates, loop.tmin,
                                          loop.tmax, loop.wcode)]
                 cur == LiveCurrent(env.live)
             IN  [status |-> 200, typed |-> TRUE, detail |-> "",
                  out |-> Some(IF cur = None THEN base
                               ELSE [latitude |-> base.latitude,
                                     longitude |-> base.longitude,
                                     daily |-> base.daily,
                                     current_weather |-> cur[1]]),
                  calls |-> loop.calls
                            \o <<Call("live", <<>>, env.live)>>])

HasCurrent(payload) == "current_weather" \in DOMAIN payload

\* ------------------------------------------------------------ request store

MaxDays == 31

\* a span that leaves out the + 1
clamp_days_exclusive(dfrom, dto, max_days) == (dto - dfrom) > max_days

\* clamp_days: the inclusive span against max_days; TRUE when it raises
clamp_days(dfrom, dto, max_days) == (dto - dfrom) + 1 > max_days

\* CreateRequest.ensure_order: TRUE when the validator raises
ensure_order(date_from, date_to) == date_to < date_from

SetMax(S) == CHOOSE x \in S : \A y \in S : y <= x

\* The id the database gives an inserted row.  The column is a plain
\* INTEGER PRIMARY KEY on the default SQLite database, i.e. the rowid:
\* one more than the largest id in the table, 1 for an empty table.
NextId(st) == IF DOMAIN st = {} THEN 1 ELSE SetMax(DOMAIN st) + 1

\* what a handler hands back: the store it leaves and the response
Response(op, rid, input, status, typed, detail, calls) ==
    [op |-> op, rid |-> rid, location |-> input.location,
     date_from |-> input.date_from, date_to |-> input.date_to,
     notes |-> input.notes, status |-> status, typed |-> typed,
     detail |-> detail, calls |-> calls]

NoInput == [location |-> None, date_from |-> None, date_to |-> None,
            notes |-> None]

\* an update that has written and committed the notes before it raises
Raise_after_notes(st, resp) ==
    [store |-> IF resp.op = "update" /\ resp.rid \in DOMAIN st
                  /\ resp.notes # None
               THEN [st EXCEPT ![resp.rid].notes = resp.notes]
               ELSE st,
     resp |-> resp]

\* raise HTTPException (or any exception) out of a handler: nothing has been
\* assigned or committed, the store is the one the handler was given
Raise(st, resp) == [store |-> st, resp |-> resp]

create_request(st, payload, now, env) ==
    LET input == [location |-> Some(payload.location),
                  date_from |-> Some(payload.date_from),
                  date_to |-> Some(payload.date_to), notes |-> None]
        Fail(status, typed, detail, calls) ==
            Raise(st, Response("create", 0, input, status, typed, detail, calls))
    IN  IF ensure_order(payload.date_from, payload.date_to)
        THEN Fail(422, TRUE, "date_to cannot be earlier than date_from", <<>>)
        ELSE IF clamp_days(payload.date_from, payload.date_to, MaxDays)
        THEN Fail(400, TRUE, "Date range too large", <<>>)
        ELSE Let(geocode(payload.location, env), LAMBDA g :
                 IF g.status # 200
                 THEN Fail(g.status, g.typed, g.detail, g.calls)
                 ELSE Let(fetch_weather(g.lat, g.lon, payload.date_from,
                                        payload.date_to, now, env), LAMBDA w :
                      LET calls == g.calls \o w.calls
                      IN  IF w.status # 200
                          THEN Fail(w.status, w.typed, w.detail, calls)
                          ELSE LET id == NextId(st)
                                   rec == [id |-> id,
                                           location_input |-> payload.location,
                                           resolved_name |-> g.name,
                                           latitude |-> g.lat,
                                           longitude |-> g.lon,
                                           date_from |-> payload.date_from,
                                           date_to |-> payload.date_to,
                                           provider |-> "open-meteo",
                                           weather_json |-> w.out[1],
                                           notes |-> None]
                               IN  [store |-> st @@ (id :> rec),
                                    resp |-> Response("create", id, input, 200,
                                                      TRUE, "", calls)]))

get_request(st, rid) ==
    IF rid \notin DOMAIN st
    THEN Raise(st, Response("get", rid, NoInput, 404, TRUE, "Not found", <<>>))
    ELSE [store |-> st,
          resp |-> Response("get", rid, NoInput, 200, TRUE, "", <<>>)]

update_request(st, rid, patch, now, env) ==
    LET Fail(status, typed, detail, calls) ==
            Raise(st, Response("update", rid, patch, status, typed, detail, calls))
    IN  IF rid \notin DOMAIN st THEN Fail(404, TRUE, "Not found", <<>>)
        ELSE
        LET rec == st[rid]
            new_loc == IF patch.location # None THEN patch.location[1]
                       ELSE rec.location_input
            new_from == IF patch.date_from # None THEN patch.date_from[1]
                        ELSE rec.date_from
            new_to == IF patch.date_to # None THEN patch.date_to[1]
                      ELSE rec.date_to
        IN  IF new_to < new_from
            THEN Fail(400, TRUE, "date_to cannot be earlier than date_from", <<>>)
            ELSE IF clamp_days(new_from, new_to, MaxDays)
            THEN Fail(400, TRUE, "Date range too large", <<>>)
            ELSE Let(geocode(new_loc, env), LAMBDA g :
                     IF g.status # 200
                     THEN Fail(g.status, g.typed, g.detail, g.calls)
                     ELSE Let(fetch_weather(g.lat, g.lon, new_from, new_to,
                                            now, env), LAMBDA w :
                          LET calls == g.calls \o w.calls
                          IN  IF w.status # 200
                              THEN Fail(w.status, w.typed, w.detail, calls)
                              ELSE [store |->
                                      [st EXCEPT ![rid] =
                                         [rec EXCEPT
                                            !.location_input = new_loc,
                                            !.resolved_name = g.name,
                                            !.latitude = g.lat,
                                            !.longitude = g.lon,
                                            !.date_from = new_from,
                                            !.date_to = new_to,
                                            !.weather_json = w.out[1],
                                            !.notes = IF patch.notes # None
                                                      THEN patch.notes
                                                      ELSE rec.notes]],
                                    resp |-> Response("update", rid, patch, 200,
                                                      TRUE, "", calls)]))

\* a delete that answers a missing id like a present one
delete_request_idempotent(st, rid) ==
    [store |-> [i \in DOMAIN st \ {rid} |-> st[i]],
     resp |-> Response("delete", rid, NoInput, 200, TRUE, "", <<>>)]

delete_request(st, rid) ==
    IF rid \notin DOMAIN st
    THEN Raise(st, Response("delete", rid, NoInput, 404, TRUE, "Not found", <<>>))
    ELSE [store |-> [i \in DOMAIN st \ {rid} |-> st[i]],
          resp |-> Response("delete", rid, NoInput, 200, TRUE, "", <<>>)]

\* ------------------------------------------------- upstream services' answers

RespExc == [exc |-> TRUE, status_code |-> 0, body |-> [json_ok |-> FALSE]]

RespStatus(code) ==
    [exc |-> FALSE, status_code |-> code, body |-> [json_ok |-> FALSE]]

RespBadJson == [exc |-> FALSE, status_code |-> 200, body |-> [json_ok |-> FALSE]]

RespResults(results) ==
    [exc |-> FALSE, status_code |-> 200,
     body |-> [json_ok |-> TRUE, results |-> results]]

RespPlaces(places) ==
    [exc |-> FALSE, status_code |-> 200,
     body |-> [json_ok |-> TRUE, places |-> places]]

RespCurrent(cw) ==
    [exc |-> FALSE, status_code |-> 200,
     body |-> [json_ok |-> TRUE, current_weather |-> cw]]

Place(name, admin1, country) ==
    [name |-> name, admin1 |-> admin1, country |-> country,
     latitude |-> 51, longitude |-> 7]

RevNamed == RespResults(<<Place(<<"P">>, <<"I">>, <<"F">>)>>)

RevBlank == RespResults(<<Place(<<>>, <<>>, <<>>)>>)

RevResponses ==
    {RespExc, RespStatus(500), RespBadJson, RespResults(<<>>), RevNamed, RevBlank}

ZipPlace(latitude) ==
    [place_name |-> <<"N">>, state_abbreviation |-> <<"Y">>,
     latitude |-> latitude, longitude |-> <<"7", "4">>]

ZipGood == RespPlaces(<<ZipPlace(<<"4", "0">>)>>)

ZipResponses ==
    {RespExc, RespStatus(404), RespBadJson, RespPlaces(<<>>),
     RespPlaces(<<ZipPlace(<<"x">>)>>), ZipGood}

SearchGood == RespResults(<<Place(<<"B">>, <<"I">>, <<"F">>)>>)

SearchResponses ==
    {RespExc, RespStatus(500), RespBadJson, RespResults(<<>>), SearchGood,
     RespResults(<<Place(<<"B">>, <<>>, <<"F">>)>>)}

SegBehaviour(exc, code, json_ok, shape) ==
    [exc |-> exc, status_code |-> code, json_ok |-> json_ok, shape |-> shape,
     code |-> Some(3)]

SegFull == SegBehaviour(FALSE, 200, TRUE, "full")

SegBehaviours ==
    {SegBehaviour(TRUE, 0, FALSE, "full"), SegBehaviour(FALSE, 500, FALSE, "full"),
     SegBehaviour(FALSE, 200, FALSE, "full"), SegFull,
     SegBehaviour(FALSE, 200, TRUE, "short"),
     SegBehaviour(FALSE, 200, TRUE, "nodaily"),
     [SegFull EXCEPT !.code = None]}

LiveGood == RespCurrent(Some(15))

LiveResponses ==
    {RespExc, RespStatus(500), RespBadJson, LiveGood, RespCurrent(None)}

GoodEnv ==
    [rev |-> RevNamed, zip |-> ZipGood, search |-> SearchGood,
     seg |-> <<SegFull, SegFull>>, live |-> LiveGood]

\* ------------------------------------------------------------------ inputs

L_LatLon == <<"4", "8", ",", "2">>

L_LatLonSpaced == <<" ", "4", ",", " ", "2">>

L_Zero == <<"0", ",", "0">>

L_Zip == <<"1", "0", "0", "0", "1">>

L_FourDigits == <<"1", "2", "3", "4">>

L_Text == <<"a", "b">>

L_BadPair == <<"4", ",", "a">>

L_Triple == <<"1", ",", "2", ",", "3">>

GeoLocations ==
    {L_LatLon, L_LatLonSpaced, L_Zero, L_Zip, L_FourDigits, L_Text, L_BadPair,
     L_Triple}

GeoEnvs ==
    {[GoodEnv EXCEPT !.rev = r, !.zip = z, !.search = s] :
        r \in RevResponses, z \in ZipResponses, s \in SearchResponses}

MaxDate == 3

FetchDates == 0..MaxDate

FetchEnvs ==
    {[GoodEnv EXCEPT !.seg = <<a, b>>, !.live = l] :
        a \in SegBehaviours, b \in SegBehaviours, l \in LiveResponses}

\* ---------------------------------------------- the resolver on its own

NoResult == None

NoResponse == Response("none", 0, NoInput, 0, TRUE, "", <<>>)

Idle == [called |-> FALSE]

GeocodeCall ==
    /\ ~geo.called
    /\ geo' = [geo EXCEPT !.called = TRUE,
                          !.result = Some(geocode(geo.location, geo.env))]
    /\ UNCHANGED <<store, issued, today, last, fw>>

GeoInit ==
    /\ store = <<>>
    /\ issued = {}
    /\ today = 0
    /\ last = NoResponse
    /\ geo \in {[called |-> FALSE, location |-> l, env |-> e,
                 result |-> NoResult] : l \in GeoLocations, e \in GeoEnvs}
    /\ fw = Idle

GeoNext == GeocodeCall

SpecGeo == GeoInit /\ [][GeoNext]_vars

\* ----------------------------------------------- the fetcher on its own

FetchWeatherCall ==
    /\ ~fw.called
    /\ fw' = [fw EXCEPT !.called = TRUE,
                        !.result = Some(fetch_weather(fw.lat, fw.lon, fw.dfrom,
                                                      fw.dto, today, fw.env))]
    /\ UNCHANGED <<store, issued, today, last, geo>>

FetchInit ==
    /\ store = <<>>
    /\ issued = {}
    /\ today \in 0..(MaxDate + 1)
    /\ last = NoResponse
    /\ geo = Idle
    /\ fw \in {[called |-> FALSE, lat |-> 48, lon |-> 2, dfrom |-> a,
                dto |-> b, env |-> e, result |-> NoResult] :
                  a \in FetchDates, b \in FetchDates, e \in FetchEnvs}
    /\ fw.dfrom <= fw.dto

FetchNext == FetchWeatherCall

SpecFetch == FetchInit /\ [][FetchNext]_vars

\* ------------------------------------------------------- the request store

MaxId == 1

Opt(S) == {None} \cup {Some(x) : x \in S}

PayloadsOver(locations, dates) ==
    [location : locations, date_from : dates, date_to : dates]

PatchesOver(locations, dates, notes) ==
    [location : Opt(locations), date_from : Opt(dates), date_to : Opt(dates),
     notes : Opt(notes)]

Finish(r) ==
    /\ store' = r.store
    /\ last' = r.resp
    /\ issued' = issued \cup (DOMAIN r.store \ DOMAIN store)
    /\ UNCHANGED <<today, geo, fw>>

\* POST /api/requests
Create(payloads, envs) ==
    /\ NextId(store) <= MaxId
    /\ \E payload \in payloads :
          \E r \in {create_request(store, payload, today, e) : e \in envs} :
             Finish(r)

\* GET /api/requests/{rid}
Get == \E rid \in 1..MaxId : Finish(get_request(store, rid))

\* PUT /api/requests/{rid}
Update(patches, envs) ==
    \E rid \in 1..MaxId, patch \in patches :
       \E r \in {update_request(store, rid, patch, today, e) : e \in envs} :
          Finish(r)

\* DELETE /api/requests/{rid}
Delete == \E rid \in 1..MaxId : Finish(delete_request(store, rid))

\* --- the store with the upstream services failing: ranges around today

CrudDates == {0, 1}

CrudLocations == {L_Text}

CrudNotes == {<<"n">>}

\* the upstream services all answering well, or one of them failing
CrudEnvs ==
    {GoodEnv,
     [GoodEnv EXCEPT !.search = RespStatus(500)],
     [GoodEnv EXCEPT !.search = RespExc],
     [GoodEnv EXCEPT !.search = RespResults(<<>>)],
     [GoodEnv EXCEPT !.seg = <<SegBehaviour(FALSE, 500, FALSE, "full"), SegFull>>],
     [GoodEnv EXCEPT !.seg = <<SegFull, SegBehaviour(TRUE, 0, FALSE, "full")>>]}

CreateRequest == Create(PayloadsOver(CrudLocations, CrudDates), CrudEnvs)

GetRequest == Get

UpdateRequest == Update(PatchesOver({}, CrudDates, CrudNotes), CrudEnvs)

DeleteRequest == Delete

Init ==
    /\ store = <<>>
    /\ issued = {}
    /\ today = 1
    /\ last = NoResponse
    /\ geo = Idle
    /\ fw = Idle

Next == CreateRequest \/ GetRequest \/ UpdateRequest \/ DeleteRequest

Spec == Init /\ [][Next]_vars

\* --- the store with ranges around the 31-day window: the services answer

WindowDates == {0, MaxDays - 1, MaxDays}

WindowCreate == Create(PayloadsOver(CrudLocations, WindowDates), {GoodEnv})

WindowUpdate == Update(PatchesOver(CrudLocations, WindowDates, {}), {GoodEnv})

WindowDelete == Delete

WindowInit ==
    /\ store = <<>>
    /\ issued = {}
    /\ today = MaxDays
    /\ last = NoResponse
    /\ geo = Idle
    /\ fw = Idle

WindowNext == WindowCreate \/ WindowUpdate \/ WindowDelete

SpecWindow == WindowInit /\ [][WindowNext]_vars

\* ================================================================== claims

\* --- what the formulas read off a fetch_weather call (SpecFetch)

SegmentCalls(calls) ==
    LET segs == SelectSeq(calls, LAMBDA c : c.svc \in {"archive", "forecast"})
    IN  [i \in 1..Len(segs) |-> <<segs[i].svc, segs[i].args>>]

FwResult == fw.result[1]

FwIssued == SegmentCalls(FwResult.calls)

FwPlan ==
    IF fw.dto < today THEN << <<"archive", <<fw.dfrom, fw.dto>>>> >>
    ELSE IF fw.dfrom >= today THEN << <<"forecast", <<fw.dfrom, fw.dto>>>> >>
    ELSE << <<"archive", <<fw.dfrom, today - 1>>>>,
            <<"forecast", <<today, fw.dto>>>> >>

FwPartitioned ==
    Len(FwIssued) = 2 =>
        /\ FwIssued[1][2][1] = fw.dfrom
        /\ FwIssued[1][2][1] <= FwIssued[1][2][2]
        /\ FwIssued[1][2][2] + 1 = FwIssued[2][2][1]
        /\ FwIssued[2][2][1] <= FwIssued[2][2][2]
        /\ FwIssued[2][2][2] = fw.dto

SegFails(b) == b.exc \/ b.status_code # 200 \/ ~b.json_ok

FwDaily == FwResult.out[1].daily

FwDays == fw.dto - fw.dfrom + 1

\* an update whose patch supplies notes and nothing else
NotesOnly(r) ==
    /\ r.op = "update"
    /\ r.location = None /\ r.date_from = None /\ r.date_to = None
    /\ r.notes # None

\* --- C1 as stated: an update of a stored record whose patch supplies only
\* notes makes no resolver and no fetcher call and leaves resolved_name,
\* latitude, longitude and the weather payload of the record as they were.
C1_NotesOnlyUpdateMakesNoCall ==
    [][(NotesOnly(last') /\ last'.rid \in DOMAIN store) =>
          /\ last'.calls = <<>>
          /\ last'.rid \in DOMAIN store'
          /\ store'[last'.rid].resolved_name = store[last'.rid].resolved_name
          /\ store'[last'.rid].latitude = store[last'.rid].latitude
          /\ store'[last'.rid].longitude = store[last'.rid].longitude
          /\ store'[last'.rid].weather_json = store[last'.rid].weather_json]_vars

\* --- C2: a create or update that ends in an error leaves the store, every
\* record and every field of it, notes included, exactly as it was.
C2_ErrorLeavesStoreUnchanged ==
    [][(last'.op \in {"create", "update"} /\ last'.status # 200) =>
          store' = store]_vars

\* an update that supplied notes failed in the weather fetch, and the
\* targeted record still has no notes
C2_Witness ==
    /\ last.op = "update" /\ last.status = 502 /\ last.notes # None
    /\ last.calls # <<>>
    /\ last.rid \in DOMAIN store
    /\ store[last.rid].notes = None

\* the two shapes a rejected range takes: 422 from the CreateRequest
\* validator, 400 from clamp_days and from update_request's own order test
IsValidationError(r) == r.status \in {400, 422} /\ r.typed

C3_StoredRangesValid ==
    \A i \in DOMAIN store :
        /\ store[i].date_from <= store[i].date_to
        /\ store[i].date_to - store[i].date_from <= 30

RangeChecked(r, dfrom, dto) ==
    IF dto < dfrom \/ (dto - dfrom) + 1 > 31
    THEN IsValidationError(r) /\ r.calls = <<>>
    ELSE ~IsValidationError(r) /\ r.calls # <<>>

C3_Step ==
    /\ last'.op = "create" =>
          RangeChecked(last', last'.date_from[1], last'.date_to[1])
    /\ (last'.op = "update" /\ last'.rid \in DOMAIN store) =>
          RangeChecked(last',
                       IF last'.date_from # None THEN last'.date_from[1]
                       ELSE store[last'.rid].date_from,
                       IF last'.date_to # None THEN last'.date_to[1]
                       ELSE store[last'.rid].date_to)

\* --- C3: every stored range has date_from <= date_to and at most 30 days
\* between them; a create or update whose (merged) range is out of order or
\* spans more than 31 days inclusive is rejected with a validation error
\* before any outbound call, and any other range passes validation.
C3_DateRangeEnforced == []C3_StoredRangesValid /\ [][C3_Step]_vars

\* a record spanning exactly 31 days is stored, and the update moving its
\* date_to one day on was rejected
C3_Witness ==
    /\ last.op = "update" /\ last.status = 400
    /\ last.date_from = None /\ last.date_to = Some(31)
    /\ last.rid \in DOMAIN store
    /\ store[last.rid].date_from = 0 /\ store[last.rid].date_to = 30

\* --- C4 as stated: the segment requests issued are exactly the planned
\* ones: one archive request for a past range, one forecast request for a
\* range from today on, otherwise archive [date_from, today-1] then forecast
\* [today, date_to].
C4_SegmentRequestsAsStated ==
    fw.called => FwIssued = FwPlan /\ FwPartitioned

\* --- C4 amended: the same, except that in the straddling case the forecast
\* request is issued only when the archive request succeeded; when the
\* archive request fails it is the only request issued.
C4_SegmentRequests ==
    fw.called =>
        /\ FwIssued = IF Len(FwPlan) = 2 /\ SegFails(fw.env.seg[1])
                      THEN <<FwPlan[1]>> ELSE FwPlan
        /\ FwPartitioned

\* a straddling range, both requests issued
C4_Witness ==
    /\ fw.called /\ fw.dfrom < today /\ today < fw.dto
    /\ FwResult.status = 200
    /\ Len(FwIssued) = 2

GeoResult == geo.result[1]

FiveDigits(s) == Len(s) = 5 /\ \A i \in 1..5 : s[i] \in DigitSet

\* --- C6: an input that parses as "<float>,<float>" always resolves, to
\* exactly the parsed coordinates, whatever the reverse lookup does; the name
\* is the reverse-lookup name when there is one and the formatted
\* coordinates otherwise; only the reverse-lookup service is called.
C6_CoordinatePairNeverFails ==
    (geo.called /\ parse_latlon(geo.location) # None) =>
        LET ll == parse_latlon(geo.location)[1]
        IN  /\ GeoResult.status = 200
            /\ GeoResult.lat = ll.lat /\ GeoResult.lon = ll.lon
            /\ Len(GeoResult.calls) = 1 /\ GeoResult.calls[1].svc = "reverse"
            /\ GeoResult.name =
                  IF geo.env.rev = RevNamed
                  THEN <<"P", ",", " ", "I", ",", " ", "F">>
                  ELSE Fmt4f(ll.lat) \o <<",">> \o Fmt4f(ll.lon)
            /\ geo.location = L_LatLon =>
                  /\ GeoResult.lat = 48 /\ GeoResult.lon = 2
                  /\ geo.env.rev # RevNamed =>
                        GeoResult.name = <<"4", "8", ".", "0", "0", "0", "0", ",",
                                           "2", ".", "0", "0", "0", "0">>

\* "48,2" resolved although the reverse lookup raised
C6_Witness ==
    /\ geo.called /\ geo.location = L_LatLon /\ geo.env.rev = RespExc
    /\ GeoResult.status = 200 /\ GeoResult.lat = 48

\* --- C7: for an input of exactly 5 digits a failed postal lookup raises
\* nothing: the same input goes to free-text geocoding, whose outcome is the
\* resolver's; a successful postal lookup is final, names the place
\* "<place>, <state> <zip>" and leaves the free-text service uncalled.
C7_PostalFallsThrough ==
    (geo.called /\ FiveDigits(geo.location)) =>
        IF geo.env.zip = ZipGood
        THEN /\ GeoResult.status = 200
             /\ Len(GeoResult.calls) = 1 /\ GeoResult.calls[1].svc = "zip"
             /\ GeoResult.name = <<"N", ",", " ", "Y", " ">> \o geo.location
             /\ GeoResult.lat = 40 /\ GeoResult.lon = 74
        ELSE LET free == search_geocode(geo.location, geo.env.search, <<>>)
             IN  /\ Len(GeoResult.calls) = 2
                 /\ GeoResult.calls[1].svc = "zip"
                 /\ GeoResult.calls[2] = free.calls[1]
                 /\ GeoResult.calls[2].svc = "search"
                 /\ GeoResult.calls[2].args = geo.location
                 /\ GeoResult.status = free.status
                 /\ GeoResult.typed = free.typed
                 /\ GeoResult.detail = free.detail
                 /\ GeoResult.name = free.name
                 /\ GeoResult.lat = free.lat /\ GeoResult.lon = free.lon

\* "10001" unknown to the postal service, resolved by the free-text search
C7_Witness ==
    /\ geo.called /\ geo.location = L_Zip /\ geo.env.zip = RespStatus(404)
    /\ GeoResult.status = 200
    /\ Len(GeoResult.calls) = 2 /\ GeoResult.calls[2].svc = "search"

\* a critical outbound call that did not return success
CriticalFailure(c) ==
    c.svc \in {"search", "archive", "forecast"} /\ c.outcome \in {"status", "exc"}

\* --- C8 as stated: a create or update in which the free-text geocoding
\* call or a weather segment call failed, by status or by timeout, ends with
\* the typed 502 of that service.
C8_CriticalFailureIsTyped502 ==
    (last.op \in {"create", "update"}
     /\ \E i \in 1..Len(last.calls) : CriticalFailure(last.calls[i])) =>
        /\ last.status = 502 /\ last.typed
        /\ last.detail \in {"Geocoding failed", "Weather API error (archive)",
                            "Weather API error (forecast)"}

\* --- C9 as stated: the id of a newly created record was never the id of
\* any record before, deleted ones included.
C9_IdsNeverReused ==
    [][\A i \in DOMAIN store' \ DOMAIN store : i \notin issued]_vars

\* --- C10 as stated: a returned payload carries current_weather only when
\* the range includes or follows today.
C10_CurrentOnlyFromToday ==
    (fw.called /\ FwResult.status = 200 /\ HasCurrent(FwResult.out[1])) =>
        fw.dto >= today

\* an operation addressing one record by id
ById(r) == r.op \in {"get", "update", "delete"}

NotFound(r) ==
    r.status = 404 /\ r.typed /\ r.detail = "Not found" /\ r.calls = <<>>

\* --- C11: a delete of an id that is not in the store fails with NotFound and
\* leaves the store unchanged; a successful delete of X confirms X and removes
\* exactly that record; a delete, get or update of X right after it, and any
\* get, update or delete of an absent id, fails with NotFound; only a create
\* brings an id into the store.
C11_DeleteThenNotFound ==
    [][/\ (last'.op = "delete" /\ last'.rid \in DOMAIN store) =>
             /\ last'.status = 200
             /\ DOMAIN store \ DOMAIN store' = {last'.rid}
             /\ store' = [i \in DOMAIN store \ {last'.rid} |-> store[i]]
       /\ (ById(last') /\ last'.rid \notin DOMAIN store) =>
             NotFound(last') /\ store' = store
       /\ (last.op = "delete" /\ last.status = 200
           /\ ById(last') /\ last'.rid = last.rid) =>
             NotFound(last') /\ store' = store
       /\ last'.op # "create" => DOMAIN store' \subseteq DOMAIN store]_vars

\* the second delete of a record that had been created and deleted
C11_Witness ==
    /\ last.op = "delete" /\ last.status = 404
    /\ last.rid \in issued /\ last.rid \notin DOMAIN store

====
